---------------------------- MODULE Spec2Model ----------------------------
(***************************************************************************)
(* Model of src/utils/project_structure.py: get_project_structure (five    *)
(* git commands, the walk of the working tree, the RepoInfo record),       *)
(* class_to_xml and get_project_structure_xml.                             *)
(*                                                                         *)
(* Text is a sequence of characters.  A character is a one-character       *)
(* string; the four box-drawing characters of the tree listing are written *)
(* by their code points ("U+2502", ...), each one character.  The text the *)
(* model draws is printable: a file name, a remote, a field of a commit    *)
(* holds no line break and no character that XML forbids.                  *)
(***************************************************************************)
EXTENDS Naturals, Sequences, FiniteSets, TLC

(***************************************************************************)
(* Bounds of the model.                                                    *)
(***************************************************************************)
\* the working tree holds at most MaxRepoNodes entries, the root included,
\* when the whole program runs (Spec), and at most MaxNodes when the walk
\* is checked on its own (SpecWalk)
MaxRepoNodes == 3
MaxNodes == 4

(***************************************************************************)
(* Characters and text helpers (Python str methods).                       *)
(***************************************************************************)
NL == "\n"
TAB == "\t"
SP == " "
BoxV == "U+2502"
BoxT == "U+251C"
BoxL == "U+2514"
BoxH == "U+2500"

\* str.isspace() of one character, for the characters the model draws
IsSpace(c) == c \in {SP, TAB, NL}

\* s[i:] and s[:i] with Python's 0-based slice bounds
From(s, i) == SubSeq(s, i + 1, Len(s))
Upto(s, i) == SubSeq(s, 1, i)

\* s.startswith(p)
StartsWith(s, p) == Len(p) <= Len(s) /\ Upto(s, Len(p)) = p

\* p in s
Contains(s, p) ==
    \E i \in 0..(Len(s) - Len(p)) : SubSeq(s, i + 1, i + Len(p)) = p

\* s.strip(): leading and trailing whitespace removed
Strip(s) ==
    LET keep == {i \in 1..Len(s) : ~IsSpace(s[i])}
    IN  IF keep = {} THEN <<>>
        ELSE LET lo == CHOOSE i \in keep : \A j \in keep : i <= j
                 hi == CHOOSE i \in keep : \A j \in keep : j <= i
             IN  SubSeq(s, lo, hi)

\* s.split('\n'): the pieces between the separators, empty pieces kept
RECURSIVE SplitOn(_, _)
SplitOn(s, sep) ==
    LET hits == {i \in 1..Len(s) : s[i] = sep}
    IN  IF hits = {} THEN <<s>>
        ELSE LET k == CHOOSE i \in hits : \A j \in hits : i <= j
             IN  <<SubSeq(s, 1, k - 1)>> \o SplitOn(From(s, k), sep)

\* s.split(): the maximal runs of non-whitespace characters
RECURSIVE SplitWs(_)
SplitWs(s) ==
    LET keep == {i \in 1..Len(s) : ~IsSpace(s[i])}
    IN  IF keep = {} THEN <<>>
        ELSE LET lo == CHOOSE i \in keep : \A j \in keep : i <= j
                 stop == {i \in lo..Len(s) : IsSpace(s[i])}
                 hi == IF stop = {} THEN Len(s)
                       ELSE (CHOOSE i \in stop : \A j \in stop : i <= j) - 1
             IN  <<SubSeq(s, lo, hi)>> \o SplitWs(From(s, hi))

(***************************************************************************)
(* The working tree.  An entry is [name, dir, kids]: kids is what          *)
(* path.iterdir() returns, in the order it returns it (empty for a file).  *)
(***************************************************************************)
NameA == <<"a">>
NameReadme == <<"R", "E", "A", "D", "M", "E">>
NameGit == <<".", "g", "i", "t">>
NamePool == {NameA, NameReadme, NameGit}

RECURSIVE Size(_)
Size(e) ==
    LET RECURSIVE Sum(_, _)
        Sum(ks, i) == IF i > Len(ks) THEN 0 ELSE Size(ks[i]) + Sum(ks, i + 1)
    IN  1 + Sum(e.kids, 1)

RECURSIVE Entries(_), Forests(_, _)
\* the entries (files, and directories with everything beneath them) of at
\* most n nodes
Entries(n) ==
    IF n = 0 THEN {}
    ELSE {[name |-> nm, dir |-> FALSE, kids |-> <<>>] : nm \in NamePool}
         \cup {[name |-> nm, dir |-> TRUE, kids |-> f] :
                  nm \in NamePool, f \in Forests(n - 1, {})}
\* the listings of a directory: entries of distinct names, none in `used`,
\* of at most m nodes together
Forests(m, used) ==
    {<<>>} \cup
    UNION {{<<e>> \o f : f \in Forests(m - Size(e), used \cup {e.name})} :
              e \in {x \in Entries(m) : x.name \notin used}}

\* the repository root is a directory
WorkingTrees(n) == {e \in Entries(n) : e.dir}

(***************************************************************************)
(* build_markdown_tree                                                     *)
(***************************************************************************)
ignore_dirs ==
    { <<".", "g", "i", "t">>,
      <<"_", "_", "p", "y", "c", "a", "c", "h", "e", "_", "_">>,
      <<".", "i", "d", "e", "a">>,
      <<".", "v", "s", "c", "o", "d", "e">>,
      <<"n", "o", "d", "e", "_", "m", "o", "d", "u", "l", "e", "s">> }

\* (mutant) the test at the head of build_markdown_tree left out
is_ignored_never(path) == FALSE

\* the test that makes build_markdown_tree return "" at once
is_ignored(path) == path.name \in ignore_dirs

\* f"{path.name}/" for a directory, path.name otherwise
item_str(path) == IF path.dir THEN path.name \o <<"/">> ELSE path.name

connector(is_last) ==
    IF is_last THEN <<BoxL, BoxH, BoxH, SP>> ELSE <<BoxT, BoxH, BoxH, SP>>

\* the line of one entry
entry_line(path, prefix, is_last) ==
    IF prefix = <<>>
    THEN <<"-", SP>> \o item_str(path) \o <<NL>>
    ELSE prefix \o connector(is_last) \o item_str(path) \o <<NL>>

\* (mutant) the children in reverse order
children_reversed(path) ==
    LET c == SelectSeq(path.kids, LAMBDA item : item.name \notin ignore_dirs)
    IN  [i \in 1..Len(c) |-> c[Len(c) + 1 - i]]

\* the children a directory's loop keeps
children_of(path) ==
    SelectSeq(path.kids, LAMBDA item : item.name \notin ignore_dirs)

\* (mutant) the parent's own position ignored
new_prefix_blank(prefix, is_last) == prefix \o <<SP, SP, SP, SP>>

new_prefix(prefix, is_last) ==
    IF is_last THEN prefix \o <<SP, SP, SP, SP>>
    ELSE prefix \o <<BoxV, SP, SP, SP>>

is_last_child(i, children) == i = Len(children) - 1

\* (mutant) every entry counted as a file
count_as_file(path) == [files |-> 1, dirs |-> 0]

\* what one entry adds to the counters total_files and total_dirs
count_entry(path) ==
    IF path.dir THEN [files |-> 0, dirs |-> 1] ELSE [files |-> 1, dirs |-> 0]

\* The result is the returned string with what the call added to the
\* nonlocal counters total_files and total_dirs.
RECURSIVE build_markdown_tree(_, _, _)
build_markdown_tree(path, prefix, is_last) ==
    IF is_ignored(path)
    THEN [out |-> <<>>, files |-> 0, dirs |-> 0]
    ELSE LET children == children_of(path)
             RECURSIVE Loop(_, _)
             \* the for loop from index i (0-based) on, acc the state so far
             Loop(i, acc) ==
                 IF i >= Len(children) THEN acc
                 ELSE LET r == build_markdown_tree(
                                   children[i + 1],
                                   new_prefix(prefix, is_last),
                                   is_last_child(i, children))
                      IN  Loop(i + 1, [out |-> acc.out \o r.out,
                                       files |-> acc.files + r.files,
                                       dirs |-> acc.dirs + r.dirs])
             first == [out |-> entry_line(path, prefix, is_last),
                       files |-> count_entry(path).files,
                       dirs |-> count_entry(path).dirs]
         IN  IF path.dir THEN Loop(0, first) ELSE first


(***************************************************************************)
(* What the external commands print.                                       *)
(***************************************************************************)
Origin == <<"o", "r", "i", "g", "i", "n">>
Origin2 == <<"o", "r", "i", "g", "i", "n", "2">>
Upstream == <<"u", "p", "s", "t", "r", "e", "a", "m">>
Fetch == <<"f", "e", "t", "c", "h">>
Push == <<"p", "u", "s", "h">>

\* the remotes a repository may have, in the order git lists them (by name)
AllRemotes ==
    << [name |-> Origin, url |-> <<"g", "i", "t", "@", "h", ":", "o">>],
       [name |-> Origin2, url |-> <<"g", "i", "t", "@", "h", ":", "p">>],
       [name |-> Upstream, url |-> <<"g", "i", "t", "@", "h", ":", "u">>] >>
RemoteConfigs ==
    {SelectSeq(AllRemotes, LAMBDA r : r.name \in chosen) :
        chosen \in SUBSET {Origin, Origin2, Upstream}}

\* git remote -v: a fetch line and a push line for every remote
RECURSIVE remote_v_output(_)
remote_v_output(rs) ==
    IF rs = <<>> THEN <<>>
    ELSE Head(rs).name \o <<TAB>> \o Head(rs).url \o <<SP, "(">> \o Fetch
             \o <<")", NL>>
         \o Head(rs).name \o <<TAB>> \o Head(rs).url \o <<SP, "(">> \o Push
             \o <<")", NL>>
         \o remote_v_output(Tail(rs))

\* the most recent commit: its subject may be empty
Subjects == {<<"f", "i", "x", " ", "w", "a", "l", "k">>, <<>>}
Commits ==
    {[H |-> <<"c", "0", "f", "f", "e", "e">>,
      an |-> <<"A", "n", "n">>,
      ae |-> <<"a", "n", "n", "@", "x", ".", "i", "o">>,
      ad |-> <<"T", "u", "e", " ", "N", "o", "v", " ", "3">>,
      s |-> subj] : subj \in Subjects}
NoCommit == [H |-> <<>>, an |-> <<>>, ae |-> <<>>, ad |-> <<>>, s |-> <<>>]

\* git log -1 --pretty=format:%H%n%an%n%ae%n%ad%n%s
log_output(c) ==
    c.H \o <<NL>> \o c.an \o <<NL>> \o c.ae \o <<NL>> \o c.ad \o <<NL>> \o c.s

\* git rev-parse --show-toplevel: the path of the working tree, one line
toplevel_output(t) == <<"/", "w", "/">> \o t.name \o <<NL>>
\* git rev-parse --abbrev-ref HEAD
branch_output == <<"m", "a", "i", "n", NL>>
\* git status
status_output ==
    <<"O", "n", " ", "b", "r", "a", "n", "c", "h", " ", "m", "a", "i", "n", NL,
      "c", "l", "e", "a", "n", NL>>

(***************************************************************************)
(* get_project_structure: what it computes from the outputs.               *)
(***************************************************************************)
\* the loop over remote_info.split('\n') with its break
RECURSIVE first_origin_fetch(_)
first_origin_fetch(lines) ==
    IF lines = <<>> THEN <<>>
    ELSE IF StartsWith(Head(lines), Origin) /\ Contains(Head(lines), Fetch)
         THEN SplitWs(Head(lines))[2]
         ELSE first_origin_fetch(Tail(lines))

parse_repo_url(remote_info) == first_origin_fetch(SplitOn(remote_info, NL))

parse_recent_commit(commit_output) == SplitOn(commit_output, NL)

\* root_path_obj.joinpath(f).exists()
exists_in_root(t, f) == \E i \in 1..Len(t.kids) : t.kids[i].name = f

has_readme(t) ==
    \E f \in { <<"R", "E", "A", "D", "M", "E">>,
               <<"R", "E", "A", "D", "M", "E", ".", "m", "d">>,
               <<"r", "e", "a", "d", "m", "e">>,
               <<"r", "e", "a", "d", "m", "e", ".", "m", "d">> } :
        exists_in_root(t, f)

has_makefile(t) ==
    \/ exists_in_root(t, <<"M", "a", "k", "e", "f", "i", "l", "e">>)
    \/ exists_in_root(t, <<"m", "a", "k", "e", "f", "i", "l", "e">>)

\* A value of a field: its Python type and the value.
StrV(s) == [t |-> "str", v |-> s]
IntV(n) == [t |-> "int", v |-> n]
BoolV(b) == [t |-> "bool", v |-> b]
ListV(l) == [t |-> "list", v |-> [i \in 1..Len(l) |-> StrV(l[i])]]

\* A RepoInfo is its __dict__: the fields in declaration order.  l holds
\* the locals current_dir ... recent_commit, w the string and the counters
\* of the walk.
RepoInfo(l, w, readme, makefile) ==
    << [name |-> <<"c", "u", "r", "r", "e", "n", "t", "D", "i", "r", "e", "c",
                   "t", "o", "r", "y">>,
        value |-> StrV(l.current_dir)],
       [name |-> <<"r", "o", "o", "t", "P", "a", "t", "h">>,
        value |-> StrV(l.root_path)],
       [name |-> <<"r", "e", "p", "o", "U", "R", "L">>,
        value |-> StrV(l.repo_url)],
       [name |-> <<"r", "e", "p", "o", "P", "a", "t", "h">>,
        value |-> StrV(l.root_path)],
       [name |-> <<"B", "r", "a", "n", "c", "h">>,
        value |-> StrV(l.current_branch)],
       [name |-> <<"s", "t", "a", "t", "u", "s">>,
        value |-> StrV(l.status_info)],
       [name |-> <<"r", "e", "c", "e", "n", "t", "C", "o", "m", "m", "i", "t">>,
        value |-> ListV(l.recent_commit)],
       [name |-> <<"d", "i", "r", "e", "c", "t", "o", "r", "y", "S", "t", "r",
                   "u", "c", "t", "u", "r", "e">>,
        value |-> StrV(w.out)],
       [name |-> <<"h", "a", "s", "R", "e", "a", "d", "m", "e">>,
        value |-> BoolV(readme)],
       [name |-> <<"h", "a", "s", "M", "a", "k", "e", "f", "i", "l", "e">>,
        value |-> BoolV(makefile)],
       [name |-> <<"t", "o", "t", "a", "l", "F", "i", "l", "e", "s">>,
        value |-> IntV(w.files)],
       [name |-> <<"t", "o", "t", "a", "l", "D", "i", "r", "e", "c", "t", "o",
                   "r", "i", "e", "s">>,
        value |-> IntV(w.dirs)] >>

(***************************************************************************)
(* class_to_xml                                                            *)
(***************************************************************************)
UpperCase ==
    <<"A", "B", "C", "D", "E", "F", "G", "H", "I", "J", "K", "L", "M", "N",
      "O", "P", "Q", "R", "S", "T", "U", "V", "W", "X", "Y", "Z">>
LowerCase ==
    <<"a", "b", "c", "d", "e", "f", "g", "h", "i", "j", "k", "l", "m", "n",
      "o", "p", "q", "r", "s", "t", "u", "v", "w", "x", "y", "z">>
Digits == <<"0", "1", "2", "3", "4", "5", "6", "7", "8", "9">>

\* str.lower()
LowerChar(c) ==
    IF \E i \in 1..Len(UpperCase) : UpperCase[i] = c
    THEN LowerCase[CHOOSE i \in 1..Len(UpperCase) : UpperCase[i] = c]
    ELSE c
Lower(s) == [i \in 1..Len(s) |-> LowerChar(s[i])]

\* str.replace(a, b) for one-character a and b
Replace(s, a, b) == [i \in 1..Len(s) |-> IF s[i] = a THEN b ELSE s[i]]

\* str(n) of a natural number
RECURSIVE IntStr(_)
IntStr(n) ==
    IF n < 10 THEN <<Digits[n + 1]>>
    ELSE IntStr(n \div 10) \o <<Digits[(n % 10) + 1]>>

\* str(value) of a basic value
PyStr(value) ==
    CASE value.t = "str" -> value.v
      [] value.t = "int" -> IntStr(value.v)
      [] value.t = "bool" -> IF value.v THEN <<"T", "r", "u", "e">>
                             ELSE <<"F", "a", "l", "s", "e">>

\* (mutant) a bool rendered as Python prints it
basic_text_unlowered(value) == PyStr(value)

\* elem.text of a basic value
basic_text(value) ==
    IF value.t = "bool" THEN Lower(PyStr(value)) ELSE PyStr(value)

\* attr_name.replace("_", "-").lower()
safe_name(attr_name) == Lower(Replace(attr_name, "_", "-"))

\* An element is [tag, text, children].  build_xml(name, value) is the
\* element build_xml appends to its parent.
RECURSIVE build_xml(_, _)
build_xml(name, value) ==
    IF value.t \in {"str", "int", "bool"}
    THEN [tag |-> name, text |-> basic_text(value), children |-> <<>>]
    ELSE [tag |-> name, text |-> <<>>,
          children |-> [i \in 1..Len(value.v) |->
                           build_xml(<<"i", "t", "e", "m">>, value.v[i])]]

\* the attributes the last loop of class_to_xml keeps
public_attrs(obj) ==
    SelectSeq(obj, LAMBDA a : ~StartsWith(a.name, <<"_", "_">>))

\* The document class_to_xml returns: the tree `root` it builds, which is
\* what the returned string, the serialisation of `root`, denotes.
class_to_xml(obj) ==
    LET attrs == public_attrs(obj)
    IN  [tag |-> Lower(<<"R", "e", "p", "o", "I", "n", "f", "o">>),
         text |-> <<>>,
         children |-> [i \in 1..Len(attrs) |->
                          build_xml(safe_name(attrs[i].name), attrs[i].value)]]

NoDoc == [tag |-> <<>>, text |-> <<>>, children |-> <<>>]

(***************************************************************************)
(* The program.                                                            *)
(***************************************************************************)
VARIABLES
    tree,      \* the working tree of the repository
    remotes,   \* the remotes git remote -v listed
    commit,    \* the commit git log -1 showed
    pc,        \* where the call of get_project_structure(_xml) stands
    runs,      \* the external commands started so far, each with its outcome
    walked,    \* whether build_markdown_tree was entered
    loc,       \* the local variables of get_project_structure
    printed,   \* the messages printed
    raised,    \* the exceptions raised so far
    ret,       \* what get_project_structure returned
    xml        \* what get_project_structure_xml returned
vars ==
    <<tree, remotes, commit, pc, runs, walked, loc, printed, raised, ret, xml>>

Pending == [kind |-> "pending", val |-> <<>>]
None == [kind |-> "None", val |-> <<>>]
XmlPending == [kind |-> "pending", doc |-> NoDoc]
XmlNone == [kind |-> "None", doc |-> NoDoc]

NoLocals ==
    [current_dir |-> <<>>, root_path |-> <<>>, remote_info |-> <<>>,
     repo_url |-> <<>>, current_branch |-> <<>>, status_info |-> <<>>,
     commit_output |-> <<>>, recent_commit |-> <<>>]

\* (mutant) an except clause returning what was gathered so far
handler_result_partial(exc) == [kind |-> "RepoInfo", val |-> <<>>]

\* the value the two except clauses return
handler_result(exc) == None

\* the message an except clause prints
handler_message(exc) ==
    IF exc = "CalledProcessError" THEN "git_error" ELSE "error"

\* (mutant) the failure of a command swallowed: the next step runs
after_raise_continue(at) ==
    CASE at = "toplevel" -> "remote"
      [] at = "remote" -> "branch"
      [] at = "branch" -> "status"
      [] at = "status" -> "log"
      [] at = "log" -> "walk"
      [] OTHER -> "returned"

\* where control goes when a step raises: to the except clause, which returns
after_raise(at) == "returned"

\* `if repo_info:` of get_project_structure_xml
truthy(r) == r.kind = "RepoInfo"

\* a step at pc raises exc: the except clause prints and returns
Raise(exc) ==
    /\ pc' = after_raise(pc)
    /\ raised' = Append(raised, exc)
    /\ printed' = Append(printed, handler_message(exc))
    /\ ret' = handler_result(exc)
    /\ UNCHANGED <<tree, remotes, commit, loc, xml>>

Started(cmd, outcome) == runs' = Append(runs, [cmd |-> cmd, outcome |-> outcome])

\* os.getcwd() and git rev-parse --show-toplevel; the program is started in
\* the top-level directory
git_rev_parse_show_toplevel ==
    /\ pc = "toplevel"
    /\ \/ /\ Started("rev-parse --show-toplevel", "ok")
          /\ loc' = [loc EXCEPT
                        !.current_dir = Strip(toplevel_output(tree)),
                        !.root_path = Strip(toplevel_output(tree))]
          /\ pc' = "remote"
          /\ UNCHANGED <<tree, remotes, commit, printed, raised, ret, xml>>
       \/ Started("rev-parse --show-toplevel", "CalledProcessError")
          /\ Raise("CalledProcessError")
       \/ Started("rev-parse --show-toplevel", "Exception")
          /\ Raise("Exception")
    /\ UNCHANGED walked

git_remote_v ==
    /\ pc = "remote"
    /\ \/ \E rs \in RemoteConfigs :
             /\ Started("remote -v", "ok")
             /\ remotes' = rs
             /\ loc' = [loc EXCEPT
                           !.remote_info = Strip(remote_v_output(rs)),
                           !.repo_url =
                               parse_repo_url(Strip(remote_v_output(rs)))]
             /\ pc' = "branch"
             /\ UNCHANGED <<tree, commit, printed, raised, ret, xml>>
       \/ Started("remote -v", "CalledProcessError")
          /\ Raise("CalledProcessError")
       \/ Started("remote -v", "Exception")
          /\ Raise("Exception")
    /\ UNCHANGED walked

git_rev_parse_abbrev_ref ==
    /\ pc = "branch"
    /\ \/ /\ Started("rev-parse --abbrev-ref HEAD", "ok")
          /\ loc' = [loc EXCEPT !.current_branch = Strip(branch_output)]
          /\ pc' = "status"
          /\ UNCHANGED <<tree, remotes, commit, printed, raised, ret, xml>>
       \/ Started("rev-parse --abbrev-ref HEAD", "CalledProcessError")
          /\ Raise("CalledProcessError")
       \/ Started("rev-parse --abbrev-ref HEAD", "Exception")
          /\ Raise("Exception")
    /\ UNCHANGED walked

git_status ==
    /\ pc = "status"
    /\ \/ /\ Started("status", "ok")
          /\ loc' = [loc EXCEPT !.status_info = Strip(status_output)]
          /\ pc' = "log"
          /\ UNCHANGED <<tree, remotes, commit, printed, raised, ret, xml>>
       \/ Started("status", "CalledProcessError")
          /\ Raise("CalledProcessError")
       \/ Started("status", "Exception")
          /\ Raise("Exception")
    /\ UNCHANGED walked

git_log ==
    /\ pc = "log"
    /\ \/ \E c \in Commits :
             /\ Started("log -1", "ok")
             /\ commit' = c
             /\ loc' = [loc EXCEPT
                           !.commit_output = Strip(log_output(c)),
                           !.recent_commit =
                               parse_recent_commit(Strip(log_output(c)))]
             /\ pc' = "walk"
             /\ UNCHANGED <<tree, remotes, printed, raised, ret, xml>>
       \/ Started("log -1", "CalledProcessError")
          /\ Raise("CalledProcessError")
       \/ Started("log -1", "Exception")
          /\ Raise("Exception")
    /\ UNCHANGED walked

\* steps 6 and 7 and the return: the walk, the README and Makefile tests,
\* the RepoInfo; a directory that cannot be read raises in the walk
walk_and_return ==
    /\ pc = "walk"
    /\ walked' = TRUE
    /\ \/ LET r == build_markdown_tree(tree, <<>>, TRUE)
          IN  /\ ret' = [kind |-> "RepoInfo",
                         val |-> RepoInfo(loc, r, has_readme(tree),
                                          has_makefile(tree))]
              /\ pc' = "returned"
              /\ UNCHANGED <<tree, remotes, commit, loc, printed, raised, xml>>
       \/ Raise("Exception")
    /\ UNCHANGED runs

\* get_project_structure_xml, after its call of get_project_structure
get_project_structure_xml ==
    /\ pc = "returned"
    /\ xml' = IF truthy(ret)
              THEN [kind |-> "str", doc |-> class_to_xml(ret.val)]
              ELSE XmlNone
    /\ pc' = "xml_returned"
    /\ UNCHANGED <<tree, remotes, commit, runs, walked, loc, printed, raised,
                   ret>>

Init ==
    /\ tree \in WorkingTrees(MaxRepoNodes)
    /\ remotes = <<>>
    /\ commit = NoCommit
    /\ pc = "toplevel"
    /\ runs = <<>>
    /\ walked = FALSE
    /\ loc = NoLocals
    /\ printed = <<>>
    /\ raised = <<>>
    /\ ret = Pending
    /\ xml = XmlPending

Next ==
    \/ git_rev_parse_show_toplevel
    \/ git_remote_v
    \/ git_rev_parse_abbrev_ref
    \/ git_status
    \/ git_log
    \/ walk_and_return
    \/ get_project_structure_xml

Spec == Init /\ [][Next]_vars

(***************************************************************************)
(* The walk on its own: the program as it stands when the five commands    *)
(* have succeeded, over larger working trees.                              *)
(***************************************************************************)
WalkRemotes == SelectSeq(AllRemotes, LAMBDA r : r.name = Origin)
WalkCommit ==
    CHOOSE c \in Commits : c.s = <<"f", "i", "x", " ", "w", "a", "l", "k">>

InitWalk ==
    /\ tree \in WorkingTrees(MaxNodes)
    /\ remotes = WalkRemotes
    /\ commit = WalkCommit
    /\ pc = "walk"
    /\ runs = << [cmd |-> "rev-parse --show-toplevel", outcome |-> "ok"],
                 [cmd |-> "remote -v", outcome |-> "ok"],
                 [cmd |-> "rev-parse --abbrev-ref HEAD", outcome |-> "ok"],
                 [cmd |-> "status", outcome |-> "ok"],
                 [cmd |-> "log -1", outcome |-> "ok"] >>
    /\ walked = FALSE
    /\ loc = [current_dir |-> Strip(toplevel_output(tree)),
              root_path |-> Strip(toplevel_output(tree)),
              remote_info |-> Strip(remote_v_output(WalkRemotes)),
              repo_url |-> parse_repo_url(Strip(remote_v_output(WalkRemotes))),
              current_branch |-> Strip(branch_output),
              status_info |-> Strip(status_output),
              commit_output |-> Strip(log_output(WalkCommit)),
              recent_commit |->
                  parse_recent_commit(Strip(log_output(WalkCommit)))]
    /\ printed = <<>>
    /\ raised = <<>>
    /\ ret = Pending
    /\ xml = XmlPending

NextWalk ==
    \/ walk_and_return
    \/ get_project_structure_xml

SpecWalk == InitWalk /\ [][NextWalk]_vars

(***************************************************************************)
(* Vocabulary of the properties.                                           *)
(***************************************************************************)
\* the names the walk leaves out
IgnoredNames ==
    { <<".", "g", "i", "t">>,
      <<"_", "_", "p", "y", "c", "a", "c", "h", "e", "_", "_">>,
      <<".", "i", "d", "e", "a">>,
      <<".", "v", "s", "c", "o", "d", "e">>,
      <<"n", "o", "d", "e", "_", "m", "o", "d", "u", "l", "e", "s">> }

\* A position is the path of child indices from the root: <<>> is the root,
\* <<2, 1>> the first entry of the root's second entry.
RECURSIVE Positions(_)
Positions(e) ==
    {<<>>} \cup
    UNION {{<<i>> \o p : p \in Positions(e.kids[i])} : i \in 1..Len(e.kids)}

RECURSIVE NodeAt(_, _)
NodeAt(e, p) == IF p = <<>> THEN e ELSE NodeAt(e.kids[Head(p)], Tail(p))

Parent(p) == SubSeq(p, 1, Len(p) - 1)
IsPrefix(p, q) == Len(p) <= Len(q) /\ SubSeq(q, 1, Len(p)) = p

\* neither the entry nor any directory above it bears an ignored name
Visible(t, p) ==
    \A k \in 0..Len(p) : NodeAt(t, SubSeq(p, 1, k)).name \notin IgnoredNames
VisiblePositions(t) == {p \in Positions(t) : Visible(t, p)}

\* the last of its parent's non-ignored children
LastVisible(t, p) ==
    /\ p # <<>>
    /\ \A j \in (p[Len(p)] + 1)..Len(NodeAt(t, Parent(p)).kids) :
           NodeAt(t, Parent(p) \o <<j>>).name \in IgnoredNames

\* pre-order: a directory before what lies beneath it, siblings by index
Before(p, q) ==
    \/ IsPrefix(p, q) /\ p # q
    \/ \E k \in 1..Len(p) :
           /\ k <= Len(q)
           /\ SubSeq(p, 1, k - 1) = SubSeq(q, 1, k - 1)
           /\ p[k] < q[k]
\* the number of the line that a pre-order listing gives position p
LineNo(t, p) == Cardinality({q \in VisiblePositions(t) : Before(q, p)}) + 1

\* a field of a RepoInfo, by its name
FieldOf(info, name) ==
    info[CHOOSE i \in 1..Len(info) : info[i].name = name].value.v

Returned == ret.kind = "RepoInfo"
DirectoryStructure ==
    FieldOf(ret.val, <<"d", "i", "r", "e", "c", "t", "o", "r", "y", "S", "t",
                       "r", "u", "c", "t", "u", "r", "e">>)
TotalFiles ==
    FieldOf(ret.val, <<"t", "o", "t", "a", "l", "F", "i", "l", "e", "s">>)
TotalDirectories ==
    FieldOf(ret.val, <<"t", "o", "t", "a", "l", "D", "i", "r", "e", "c", "t",
                       "o", "r", "i", "e", "s">>)
RepoURL == FieldOf(ret.val, <<"r", "e", "p", "o", "U", "R", "L">>)
RecentCommit ==
    FieldOf(ret.val, <<"r", "e", "c", "e", "n", "t", "C", "o", "m", "m", "i",
                       "t">>)

\* the lines of a listing, each without its line end
ListingLines(s) ==
    IF s = <<>> THEN <<>> ELSE SplitOn(SubSeq(s, 1, Len(s) - 1), NL)
WellEnded(s) == s = <<>> \/ s[Len(s)] = NL

\* the name a line shows, with the "/" of a directory: what follows the
\* last space (no name of the model holds a space)
LineItem(l) ==
    LET sp == {i \in 1..Len(l) : l[i] = SP}
    IN  SubSeq(l, (CHOOSE i \in sp : \A j \in sp : j <= i) + 1, Len(l))
\* the depth a line shows: 0 for "- name", else the characters before the
\* name are 4 * depth of prefix and 4 of connector
LineDepth(l) ==
    IF l[1] = "-" THEN 0 ELSE (Len(l) - Len(LineItem(l))) \div 4 - 1

ShownName(e) == IF e.dir THEN e.name \o <<"/">> ELSE e.name

\* the prefix of the line of position p: four spaces for the root, then a
\* column for every directory between the root and p
RECURSIVE PrefixColumns(_, _, _)
PrefixColumns(t, p, k) ==
    IF k >= Len(p) THEN <<>>
    ELSE (IF LastVisible(t, SubSeq(p, 1, k)) THEN <<SP, SP, SP, SP>>
          ELSE <<BoxV, SP, SP, SP>>)
         \o PrefixColumns(t, p, k + 1)
ExpectedPrefix(t, p) == <<SP, SP, SP, SP>> \o PrefixColumns(t, p, 1)

\* the order of the external commands
CommandOrder ==
    << "rev-parse --show-toplevel", "remote -v",
       "rev-parse --abbrev-ref HEAD", "status", "log -1" >>

\* the tags of the children of the document, in order
FieldTags ==
    << <<"c", "u", "r", "r", "e", "n", "t", "d", "i", "r", "e", "c", "t", "o",
         "r", "y">>,
       <<"r", "o", "o", "t", "p", "a", "t", "h">>,
       <<"r", "e", "p", "o", "u", "r", "l">>,
       <<"r", "e", "p", "o", "p", "a", "t", "h">>,
       <<"b", "r", "a", "n", "c", "h">>,
       <<"s", "t", "a", "t", "u", "s">>,
       <<"r", "e", "c", "e", "n", "t", "c", "o", "m", "m", "i", "t">>,
       <<"d", "i", "r", "e", "c", "t", "o", "r", "y", "s", "t", "r", "u", "c",
         "t", "u", "r", "e">>,
       <<"h", "a", "s", "r", "e", "a", "d", "m", "e">>,
       <<"h", "a", "s", "m", "a", "k", "e", "f", "i", "l", "e">>,
       <<"t", "o", "t", "a", "l", "f", "i", "l", "e", "s">>,
       <<"t", "o", "t", "a", "l", "d", "i", "r", "e", "c", "t", "o", "r", "i",
         "e", "s">> >>
\* the number a decimal text denotes
RECURSIVE DecimalValue(_)
DecimalValue(d) ==
    IF d = <<>> THEN 0
    ELSE 10 * DecimalValue(SubSeq(d, 1, Len(d) - 1))
         + ((CHOOSE k \in 1..10 : Digits[k] = d[Len(d)]) - 1)
IsDecimal(d) ==
    /\ d # <<>>
    /\ \A i \in 1..Len(d) : \E k \in 1..10 : Digits[k] = d[i]
    /\ Len(d) > 1 => d[1] # "0"
\* element e renders the value val of a field
Renders(e, val) ==
    CASE val.t = "bool" ->
             /\ e.children = <<>>
             /\ e.text = IF val.v THEN <<"t", "r", "u", "e">>
                         ELSE <<"f", "a", "l", "s", "e">>
      [] val.t = "int" ->
             /\ e.children = <<>>
             /\ IsDecimal(e.text)
             /\ DecimalValue(e.text) = val.v
      [] val.t = "str" -> e.children = <<>> /\ e.text = val.v
      [] val.t = "list" ->
             /\ e.text = <<>>
             /\ Len(e.children) = Len(val.v)
             /\ \A i \in 1..Len(val.v) :
                   /\ e.children[i].tag = <<"i", "t", "e", "m">>
                   /\ e.children[i].children = <<>>
                   /\ e.children[i].text = val.v[i].v

(***************************************************************************)
(* The properties.                                                         *)
(***************************************************************************)
Failed == raised # <<>>
Done == pc \in {"returned", "xml_returned"}

C2_PreOrderListing ==
    Returned =>
        LET ls == ListingLines(DirectoryStructure)
            vis == VisiblePositions(tree)
        IN  /\ WellEnded(DirectoryStructure)
            /\ Len(ls) = Cardinality(vis)
            /\ \A p \in vis :
                  /\ LineNo(tree, p) \in 1..Len(ls)
                  /\ LineItem(ls[LineNo(tree, p)]) = ShownName(NodeAt(tree, p))
                  /\ LineDepth(ls[LineNo(tree, p)]) = Len(p)
            /\ \A p, q \in vis :
                  /\ p # q => LineNo(tree, p) # LineNo(tree, q)
                  /\ (IsPrefix(p, q) /\ p # q) =>
                        /\ LineNo(tree, p) < LineNo(tree, q)
                        /\ \A r \in vis :
                              (LineNo(tree, p) < LineNo(tree, r)
                                  /\ LineNo(tree, r) < LineNo(tree, q))
                              => IsPrefix(p, r)
                  /\ (p # <<>> /\ q # <<>> /\ Parent(p) = Parent(q)
                         /\ p[Len(p)] < q[Len(q)])
                     => LineNo(tree, p) < LineNo(tree, q)
C2_Witness ==
    /\ Returned
    /\ \E p, q \in VisiblePositions(tree) :
          /\ Len(p) = 1 /\ Len(q) = 1 /\ p[1] < q[1]
          /\ NodeAt(tree, p).dir
          /\ \E r \in VisiblePositions(tree) : IsPrefix(p, r) /\ r # p

\* C3: the root is the only line written "- <name>/"; the line of an entry
\* at depth d >= 1 is a prefix of 4*d characters, a connector and the name
\* (with "/" for a directory); the connector is the corner exactly when the
\* entry is the last of its parent's non-ignored children; the prefix is
\* four spaces for the root, then for every ancestor at depth 1..d-1 four
\* spaces when that ancestor is the last non-ignored child of its parent
\* and a bar with three spaces otherwise.
C3_PrefixBookkeeping ==
    Returned =>
        LET ls == ListingLines(DirectoryStructure)
            vis == VisiblePositions(tree)
        IN  /\ Len(ls) = Cardinality(vis)
            /\ \A p \in vis :
                  LET l == ls[LineNo(tree, p)]
                      d == Len(p)
                  IN  IF p = <<>>
                      THEN l = <<"-", SP>> \o tree.name \o <<"/">>
                      ELSE /\ SubSeq(l, 1, 2) # <<"-", SP>>
                           /\ Len(l) = 4 * d + 4 + Len(ShownName(NodeAt(tree, p)))
                           /\ SubSeq(l, 1, 4 * d) = ExpectedPrefix(tree, p)
                           /\ SubSeq(l, 4 * d + 1, 4 * d + 4) =
                                  IF LastVisible(tree, p)
                                  THEN <<BoxL, BoxH, BoxH, SP>>
                                  ELSE <<BoxT, BoxH, BoxH, SP>>
                           /\ SubSeq(l, 4 * d + 5, Len(l)) =
                                  ShownName(NodeAt(tree, p))
C3_Witness ==
    /\ Returned
    /\ \E p \in VisiblePositions(tree) :
          /\ Len(p) = 2
          /\ LastVisible(tree, Parent(p))
          /\ p[1] < Len(tree.kids)

\* C4: totalDirectories is the number of non-ignored directories (the root
\* counted, directories that are or lie beneath an ignored name not),
\* totalFiles the number of non-ignored entries that are no directories,
\* and their sum is the number of lines of directoryStructure.
C4_Totals ==
    Returned =>
        LET vis == VisiblePositions(tree)
        IN  /\ TotalDirectories =
                   Cardinality({p \in vis : NodeAt(tree, p).dir})
            /\ TotalFiles = Cardinality({p \in vis : ~NodeAt(tree, p).dir})
            /\ TotalFiles + TotalDirectories =
                   Cardinality({i \in 1..Len(DirectoryStructure) :
                                   DirectoryStructure[i] = NL})
C4_Witness ==
    /\ Returned
    /\ TotalDirectories >= 2
    /\ TotalFiles >= 1
    /\ \E p \in Positions(tree) : ~Visible(tree, p) /\ NodeAt(tree, p).dir

\* C5: an entry that bears an ignored name, the root included, and every
\* entry beneath it, gives no line and adds nothing to the counts: no line
\* shows an ignored name, lines and counts are as many as the entries with
\* no ignored name on their path, and under a root with an ignored name
\* directoryStructure is empty and both counts are 0.
C5_IgnoredContributeNothing ==
    Returned =>
        LET ls == ListingLines(DirectoryStructure)
            vis == VisiblePositions(tree)
        IN  /\ \A i \in 1..Len(ls) :
                  /\ LineItem(ls[i]) \notin IgnoredNames
                  /\ LineItem(ls[i]) \notin {n \o <<"/">> : n \in IgnoredNames}
            /\ Len(ls) = Cardinality(Positions(tree))
                            - Cardinality(Positions(tree) \ vis)
            /\ TotalFiles + TotalDirectories + Cardinality(Positions(tree) \ vis)
                   = Cardinality(Positions(tree))
            /\ tree.name \in IgnoredNames =>
                  /\ DirectoryStructure = <<>>
                  /\ TotalFiles = 0
                  /\ TotalDirectories = 0
C5_Witness ==
    /\ Returned
    /\ tree.name \in IgnoredNames
    /\ \E p \in Positions(tree) :
          Len(p) = 2 /\ NodeAt(tree, p).name \notin IgnoredNames

\* C6: the commands run one at a time in the order rev-parse
\* --show-toplevel, remote -v, rev-parse --abbrev-ref HEAD, status, log -1;
\* a command is started only after the one before it succeeded, so the
\* command that fails is the last one started and the walk does not begin.
C6_CommandOrder ==
    /\ Len(runs) <= Len(CommandOrder)
    /\ \A i \in 1..Len(runs) :
          /\ runs[i].cmd = CommandOrder[i]
          /\ i < Len(runs) => runs[i].outcome = "ok"
    /\ (\E i \in 1..Len(runs) : runs[i].outcome # "ok") => ~walked /\ Done
    /\ walked => /\ Len(runs) = Len(CommandOrder)
                 /\ \A i \in 1..Len(runs) : runs[i].outcome = "ok"
C6_Witness ==
    /\ pc = "xml_returned"
    /\ Len(runs) = 3
    /\ runs[3].outcome = "CalledProcessError"
    /\ ~walked

C9_RecentCommitFive ==
    Returned =>
        /\ Len(RecentCommit) = 5
        /\ [i \in 1..Len(RecentCommit) |-> RecentCommit[i].v]
               = <<commit.H, commit.an, commit.ae, commit.ad, commit.s>>

=============================================================================
